---- MODULE Spec2Model ----
(***************************************************************************)
(* A model of human-panic (src/src/lib.rs): the panic hook installed by    *)
(* setup_human_panic_logger!, the user message of print_msg, and the log   *)
(* report built by format_panic / format_backtrace.                        *)
(*                                                                         *)
(* Text is modelled as TLA+ strings built with \o, so widths, padding,     *)
(* hexadecimal and decimal rendering are computed, not assumed.  Pointer   *)
(* values are sequences of bytes (most significant first) because a        *)
(* 64-bit address does not fit a TLC integer.                              *)
(***************************************************************************)
EXTENDS Integers, Sequences, FiniteSets, TLC

VARIABLES
    build,      \* "debug" | "release": cfg!(debug_assertions)
    env,        \* TRUE iff RUST_BACKTRACE is set in the process environment
    hook,       \* the registered panic hook, as a chain: Head is the hook, the
                \* rest is what an interceptor closure captured as default_hook
    origHook,   \* the hook that was registered before the first setup call
    loggerSet,  \* TRUE iff the log crate's global logger has been set
    meta,       \* the Metadata the setup call builds
    setups,     \* number of setup calls made
    lastSetup,  \* outcome of the most recent setup call
    lastPanic,  \* what the most recent panic did
    logSink,    \* records handed to the logger, in order
    status,     \* "running" | "aborted" (a panic inside the panic hook aborts)
    ptrBytes,   \* mem::size_of::<usize>() of the target
    stack,      \* the live call stack of user frames, innermost first
    info,       \* the PanicInfo of the most recent format_panic call
    out         \* the result of the most recent format_panic call

vars == <<build, env, hook, origHook, loggerSet, meta, setups, lastSetup,
          lastPanic, logSink, status, ptrBytes, stack, info, out>>

hookVars == <<build, env, hook, origHook, loggerSet, meta, setups, lastSetup,
              lastPanic, logSink, status>>

(***************************************************************************)
(* Bounds of the model.                                                    *)
(***************************************************************************)
MaxDepth == 2       \* user frames on the live stack
MaxSetups == 2      \* setup calls per process
MaxLog == 1         \* records handed to the logger

(***************************************************************************)
(* Text helpers: what Rust's formatting machinery does.                    *)
(***************************************************************************)
RECURSIVE Spaces(_)
Spaces(n) == IF n <= 0 THEN "" ELSE " " \o Spaces(n - 1)

\* {:w} on a number or pointer: right-aligned, padded with spaces, never cut.
PadLeft(s, w) == Spaces(w - Len(s)) \o s

DecDigit(d) == <<"0", "1", "2", "3", "4", "5", "6", "7", "8", "9">>[d + 1]

\* Display of an unsigned integer.
RECURSIVE ToDec(_)
ToDec(n) == IF n < 10 THEN DecDigit(n) ELSE ToDec(n \div 10) \o DecDigit(n % 10)

HexDigit(d) ==
    <<"0", "1", "2", "3", "4", "5", "6", "7",
      "8", "9", "a", "b", "c", "d", "e", "f">>[d + 1]

\* All hexadecimal digits of a byte sequence, two per byte.
RECURSIVE HexAll(_)
HexAll(bytes) ==
    IF bytes = <<>> THEN ""
    ELSE HexDigit(Head(bytes) \div 16) \o HexDigit(Head(bytes) % 16)
         \o HexAll(Tail(bytes))

RECURSIVE StripZeros(_)
StripZeros(s) ==
    IF Len(s) > 1 /\ SubSeq(s, 1, 1) = "0" THEN StripZeros(SubSeq(s, 2, Len(s)))
    ELSE s

\* LowerHex of the address: no leading zeros, at least one digit.
LowerHex(bytes) == StripZeros(HexAll(bytes))

\* {:w$?} on a raw pointer: fmt::Pointer sets the alternate flag ("0x") and
\* hands the address to LowerHex, which pads to the given minimum width.
FmtPointer(ip, width) == PadLeft("0x" \o LowerHex(ip), width)

(***************************************************************************)
(* Data: options are sequences (<<>> is None, <<v>> is Some(v)).           *)
(***************************************************************************)
Sym(name, file, line) == [name |-> name, file |-> file, line |-> line]

\* Addresses, eight bytes each; a target with smaller pointers keeps the
\* low-order bytes.
AddrLow == <<0, 0, 0, 0, 0, 0, 16, 0>>
AddrMid == <<0, 0, 127, 18, 52, 86, 120, 144>>
AddrHigh == <<255, 255, 255, 255, 255, 255, 255, 255>>

Ip(addr, bytes) == SubSeq(addr, Len(addr) - bytes + 1, Len(addr))

\* The frames user code can put on the stack: unresolved, fully resolved,
\* and several symbols at one address (inlining) with partial debug
\* information: a file without a line, no name, a line without a file.
FramePool(bytes) ==
    { [ip |-> Ip(AddrLow, bytes), symbols |-> <<>>],
      [ip |-> Ip(AddrMid, bytes),
       symbols |-> <<Sym(<<"main">>, <<"app.src">>, <<10>>)>>],
      [ip |-> Ip(AddrHigh, bytes),
       symbols |-> <<Sym(<<"helper">>, <<"lib.rs">>, <<>>),
                     Sym(<<>>, <<"x.rs">>, <<3>>),
                     Sym(<<"start">>, <<>>, <<120>>)>>] }

\* The payload of a panic: a &str, a String, or any other boxed value.
Payloads ==
    { [kind |-> "str", val |-> "oops"],
      [kind |-> "String", val |-> "index out of bounds"],
      [kind |-> "other", val |-> "42"] }

Locations == { <<>>, <<[file |-> "src/main.rs", line |-> 120]>> }

\* The failure records format_panic is called on: each kind of payload, with
\* and without a location.
Infos ==
    { i \in [payload : Payloads, location : Locations] :
        i.payload.kind = "str" => i.location # <<>> }

(***************************************************************************)
(* format_backtrace                                                        *)
(***************************************************************************)
SKIP_FRAMES_NUM == 8

HEX_WIDTH == ptrBytes + 2

NEXT_SYMBOL_PADDING == HEX_WIDTH + 6

\* One write! into the backtrace string.  kind names the write! that made
\* it; idx and addr are set on a frame's first write ("" and -1 elsewhere).
Piece(kind, text) == [kind |-> kind, idx |-> -1, addr |-> "", text |-> text]

\* The frames in front of the user's: 3 of the backtrace library, 3 of this
\* library (format_backtrace, format_panic, the hook closure), 2 of the
\* runtime's panic dispatch.
MachineFrame(i) ==
    [ip |-> Ip(<<0, 0, 0, 0, 0, 0, 1, i>>, ptrBytes),
     symbols |-> <<Sym(<<"machinery">>, <<>>, <<>>)>>]

\* Backtrace::new().frames(): a walk of the live stack at the time of the call.
BacktraceNew == [i \in 1..SKIP_FRAMES_NUM |-> MachineFrame(i)] \o stack

\* .skip(SKIP_FRAMES_NUM)
Skip(frames, n) == SubSeq(frames, n + 1, Len(frames))

\* FormatSymbol with the "at" line written as soon as the file is resolved.
FormatSymbolAtOnFile(j, symbol) ==
    (IF j # 0
       THEN <<Piece("cont", "\n" \o Spaces(NEXT_SYMBOL_PADDING))>>
       ELSE <<>>)
    \o <<Piece("name", IF symbol.name # <<>>
                         THEN " - " \o symbol.name[1]
                         ELSE " - <unknown>")>>
    \o (IF symbol.file # <<>>
          THEN <<Piece("at", "\n" \o Spaces(NEXT_SYMBOL_PADDING) \o "at "
                             \o symbol.file[1] \o ":"
                             \o (IF symbol.line # <<>>
                                   THEN ToDec(symbol.line[1]) ELSE "0"))>>
          ELSE <<>>)

\* The body of the loop over symbols, for the symbol at (0-based) index j.
FormatSymbol(j, symbol) ==
    (IF j # 0
       THEN <<Piece("cont", "\n" \o Spaces(NEXT_SYMBOL_PADDING))>>
       ELSE <<>>)
    \o <<Piece("name", IF symbol.name # <<>>
                         THEN " - " \o symbol.name[1]
                         ELSE " - <unknown>")>>
    \o (IF symbol.file # <<>> /\ symbol.line # <<>>
          THEN <<Piece("at", "\n" \o Spaces(NEXT_SYMBOL_PADDING) \o "at "
                             \o symbol.file[1] \o ":" \o ToDec(symbol.line[1]))>>
          ELSE <<>>)

RECURSIVE FormatSymbols(_, _)
FormatSymbols(j, symbols) ==
    IF symbols = <<>> THEN <<>>
    ELSE FormatSymbol(j, Head(symbols)) \o FormatSymbols(j + 1, Tail(symbols))

\* The first write! of the loop body: "\n{:4}: {:2$?}".
FrameHeader(idx, frame) ==
    [kind |-> "frame", idx |-> idx, addr |-> FmtPointer(frame.ip, HEX_WIDTH),
     text |-> "\n" \o PadLeft(ToDec(idx), 4) \o ": "
              \o FmtPointer(frame.ip, HEX_WIDTH)]

\* FormatFrame with a frame without symbols left out of the report.
FormatFrameSkipUnresolved(idx, frame) ==
    IF frame.symbols = <<>> THEN <<>>
    ELSE <<FrameHeader(idx, frame)>> \o FormatSymbols(0, frame.symbols)

\* The body of the loop over frames, for the frame enumerate() numbers idx.
FormatFrame(idx, frame) ==
    <<FrameHeader(idx, frame)>>
    \o (IF frame.symbols = <<>>
          THEN <<Piece("unresolved", " - <unresolved>")>>
          ELSE FormatSymbols(0, frame.symbols))

RECURSIVE FormatFrames(_, _)
FormatFrames(idx, frames) ==
    IF frames = <<>> THEN <<>>
    ELSE FormatFrame(idx, Head(frames)) \o FormatFrames(idx + 1, Tail(frames))

\* format_backtrace, as the writes it makes.
format_backtrace == FormatFrames(0, Skip(BacktraceNew, SKIP_FRAMES_NUM))

RECURSIVE Flatten(_)
Flatten(pieces) ==
    IF pieces = <<>> THEN "" ELSE Head(pieces).text \o Flatten(Tail(pieces))

(***************************************************************************)
(* format_panic                                                            *)
(***************************************************************************)
\* message with the downcast to String forgotten.
message_str_only(pinfo) ==
    IF pinfo.payload.kind = "str" THEN <<pinfo.payload.val>> ELSE <<>>

\* The downcasts of the payload to &str and to String.
message(pinfo) ==
    IF pinfo.payload.kind \in {"str", "String"} THEN <<pinfo.payload.val>>
    ELSE <<>>

cause(pinfo) == IF message(pinfo) # <<>> THEN message(pinfo)[1] ELSE "Unknown"

expl(pinfo) ==
    IF pinfo.location # <<>>
      THEN "Panic occurred in file '" \o pinfo.location[1].file
           \o "' at line " \o ToDec(pinfo.location[1].line) \o "\n"
      ELSE "Panic location unknown.\n"

\* format_panic: the parts of the report and the string it returns.
format_panic(pinfo) ==
    LET bt == format_backtrace
    IN  [expl |-> expl(pinfo),
         cause |-> cause(pinfo),
         frames |-> Skip(BacktraceNew, SKIP_FRAMES_NUM),
         bt |-> bt,
         text |-> expl(pinfo) \o "\n   " \o cause(pinfo) \o "\n" \o Flatten(bt)]

(***************************************************************************)
(* The formatter on its own: user code calls and returns, changing the     *)
(* live stack, and format_panic is called on a failure record.             *)
(***************************************************************************)
NoInfo == [payload |-> [kind |-> "other", val |-> ""], location |-> <<>>]

NoOut == [expl |-> "", cause |-> "", frames |-> <<>>, bt |-> <<>>, text |-> ""]

Call(f) ==
    /\ Len(stack) < MaxDepth
    /\ stack' = <<f>> \o stack
    /\ UNCHANGED <<ptrBytes, info, out>>
    /\ UNCHANGED hookVars

Return ==
    /\ stack # <<>>
    /\ stack' = Tail(stack)
    /\ UNCHANGED <<ptrBytes, info, out>>
    /\ UNCHANGED hookVars

FormatPanicCall(pinfo) ==
    /\ info' = pinfo
    /\ out' = format_panic(pinfo)
    /\ UNCHANGED <<ptrBytes, stack>>
    /\ UNCHANGED hookVars

(***************************************************************************)
(* print_msg                                                               *)
(***************************************************************************)
LogFile == "app.log"

\* With and without the optional fields (version is never printed).
Metas ==
    { [name |-> "app", authors |-> "", homepage |-> ""],
      [name |-> "app", authors |-> "Jane <jane@example.org>",
       homepage |-> "example.org"] }

\* The fallible operations of print_msg, in program order.
MsgOps(m) ==
    <<"set_color", "embarrassing", "crashed", "logfile">>
    \o (IF m.homepage # "" THEN <<"homepage">> ELSE <<>>)
    \o (IF m.authors # "" THEN <<"authors">> ELSE <<>>)
    \o <<"privacy", "thanks", "reset", "print">>

\* What a writeln! puts into the buffer (the path is the file_path
\* parameter, which the body names fp).
MsgLine(op, path, m) ==
    CASE op = "embarrassing" -> "Well, this is embarrassing.\n\n"
      [] op = "crashed" ->
           m.name \o " had a problem and crashed. To help us diagnose the "
           \o "problem you can send us a crash report.\n\n"
      [] op = "logfile" ->
           "There is a log file of the crash at \"" \o path
           \o "\". Please submit an issue or email with the subject of \""
           \o m.name \o " Crash Report\" and include the log as an attachment.\n\n"
      [] op = "homepage" -> "- Homepage: " \o m.homepage \o "\n"
      [] op = "authors" -> "- Authors: " \o m.authors \o "\n"
      [] op = "privacy" ->
           "\nWe take privacy seriously, and do not perform any automated "
           \o "error collection. In order to improve the software, we rely on "
           \o "people to submit reports.\n\n"
      [] op = "thanks" -> "Thank you!\n"

NoMsg ==
    [called |-> FALSE, result |-> "none", colorSet |-> FALSE,
     color |-> "default", buffer |-> <<>>, printed |-> FALSE]

\* One operation of print_msg that succeeded, applied to the state so far.
MsgStep(op, path, m, st) ==
    CASE op = "set_color" -> [st EXCEPT !.colorSet = TRUE, !.color = "white"]
      [] op = "reset" -> [st EXCEPT !.color = "default"]
      [] op = "print" -> [st EXCEPT !.printed = TRUE]
      [] OTHER -> [st EXCEPT !.buffer = Append(@, MsgLine(op, path, m))]

\* The operations from the k-th on.  The operation failOp fails, if it is
\* reached: `?` returns the error at once, and a failed stderr.print panics
\* in its unwrap.
RECURSIVE MsgRun(_, _, _, _, _, _)
MsgRun(ops, k, failOp, path, m, st) ==
    IF k > Len(ops) THEN [st EXCEPT !.result = "ok"]
    ELSE IF ops[k] = failOp
      THEN [st EXCEPT !.result = IF ops[k] = "print" THEN "panic" ELSE "err"]
    ELSE MsgRun(ops, k + 1, failOp, path, m, MsgStep(ops[k], path, m, st))

\* print_msg(file_path, meta), given which of its operations fails.
print_msg(path, m, failOp) ==
    MsgRun(MsgOps(m), 1, failOp, path, m, [NoMsg EXCEPT !.called = TRUE])

\* The outcomes of the terminal I/O: no failure, or the failure of the
\* color change, of a write (the first, an optional one, the last), of the
\* reset, or of the print.
FailOps ==
    {"none", "set_color", "embarrassing", "authors", "thanks", "reset", "print"}

(***************************************************************************)
(* The hook installed by setup_human_panic_logger!                         *)
(***************************************************************************)
Levels == <<"Error", "Warn", "Info", "Debug", "Trace">>

LevelOf(l) == CHOOSE i \in DOMAIN Levels : Levels[i] = l

\* debug_param!(LevelFilter::Debug, LevelFilter::Info)
LevelFilter == IF build = "debug" THEN "Debug" ELSE "Info"

\* error!(...): the record the logger gets.  stored tells whether the
\* sink's write to the file succeeded; the caller never sees that.
ErrorRecord(text, logOk) ==
    IF loggerSet /\ LevelOf("Error") <= LevelOf(LevelFilter)
      THEN <<[level |-> "Error", text |-> text, stored |-> logOk]>>
      ELSE <<>>

NoRun == [events |-> <<>>, logs |-> <<>>, msg |-> NoMsg, nested |-> FALSE]

\* Interceptor with the call of default_hook compiled into every build.
InterceptorAlwaysPrev(prev, pinfo, logOk, failOp) ==
    LET logs == ErrorRecord("Panic! :: " \o format_panic(pinfo).text, logOk)
        msg == IF build = "release" THEN print_msg(LogFile, meta, failOp)
               ELSE NoMsg
    IN  IF prev.nested THEN prev
        ELSE [events |-> prev.events \o <<"log">>
                         \o (IF msg.called THEN <<"print_msg">> ELSE <<>>),
              logs |-> prev.logs \o logs,
              msg |-> msg,
              nested |-> msg.called /\ msg.result # "ok"]

\* The closure given to set_hook (its print_msg call names the macro's
\* $log_file as $log), with default_hook the run of the hook it
\* captured.  A panic inside it (nested) ends the run where it happens.
Interceptor(prev, pinfo, logOk, failOp) ==
    LET first == IF build = "debug" THEN prev ELSE NoRun
        logs == ErrorRecord("Panic! :: " \o format_panic(pinfo).text, logOk)
        msg == IF build = "release" THEN print_msg(LogFile, meta, failOp)
               ELSE NoMsg
    IN  IF first.nested THEN first
        ELSE [events |-> first.events \o <<"log">>
                         \o (IF msg.called THEN <<"print_msg">> ELSE <<>>),
              logs |-> first.logs \o logs,
              msg |-> msg,
              nested |-> msg.called /\ msg.result # "ok"]

\* A run of the hook chain h on a panic.
RECURSIVE RunHook(_, _, _, _)
RunHook(h, pinfo, logOk, failOp) ==
    IF Head(h) = "interceptor"
      THEN Interceptor(RunHook(Tail(h), pinfo, logOk, failOp),
                       pinfo, logOk, failOp)
      ELSE [NoRun EXCEPT !.events = <<Head(h)>>]

NoPanic ==
    [via |-> "none", env |-> FALSE, info |-> NoInfo, events |-> <<>>,
     logs |-> <<>>, msg |-> NoMsg, nested |-> FALSE]

\* The runtime's panic dispatch: the registered hook runs; a panic inside
\* the hook aborts the process.
PanicEffects(pinfo, logOk, failOp) ==
    LET r == RunHook(hook, pinfo, logOk, failOp)
    IN  /\ lastPanic' = [via |-> Head(hook), env |-> env, info |-> pinfo,
                         events |-> r.events, logs |-> r.logs, msg |-> r.msg,
                         nested |-> r.nested]
        /\ logSink' = logSink \o r.logs
        /\ status' = IF r.nested THEN "aborted" ELSE "running"

\* The failures user code raises while the hook spec runs.
HookInfos ==
    { [payload |-> [kind |-> "str", val |-> "oops"],
       location |-> <<[file |-> "src/main.rs", line |-> 120]>>],
      [payload |-> [kind |-> "other", val |-> "42"], location |-> <<>>] }

\* What .unwrap() panics with at the setup call (the message's backquotes
\* are left out).
UnwrapInfo(err) ==
    [payload |-> [kind |-> "String",
                  val |-> "called Result::unwrap() on an Err value: " \o err],
     location |-> <<[file |-> "src/main.rs", line |-> 5]>>]

NoSetup == [result |-> "none", at |-> "", env |-> FALSE, openOk |-> TRUE]

\* A panic in user code.
Panic(pinfo, logOk, failOp) ==
    /\ status = "running"
    /\ Len(logSink) < MaxLog
    /\ PanicEffects(pinfo, logOk, failOp)
    /\ UNCHANGED <<build, env, hook, origHook, loggerSet, meta, setups, lastSetup>>
    /\ UNCHANGED <<ptrBytes, stack, info, out>>

\* setup_human_panic_logger!(log_file): open the log file, set the global
\* logger, take the registered hook and, when RUST_BACKTRACE is not set,
\* register the interceptor.  Either unwrap panics on an error.
setup_human_panic_logger(openOk, logOk, failOp) ==
    /\ status = "running"
    /\ setups < MaxSetups
    /\ Len(logSink) < MaxLog
    /\ setups' = setups + 1
    /\ IF ~openOk
         THEN /\ lastSetup' = [result |-> "panicked", at |-> "open",
                               env |-> env, openOk |-> openOk]
              /\ PanicEffects(UnwrapInfo("Os"), logOk, failOp)
              /\ UNCHANGED <<hook, loggerSet>>
       ELSE IF loggerSet
         THEN /\ lastSetup' = [result |-> "panicked", at |-> "init",
                               env |-> env, openOk |-> openOk]
              /\ PanicEffects(UnwrapInfo("SetLoggerError(())"), logOk, failOp)
              /\ UNCHANGED <<hook, loggerSet>>
       ELSE /\ loggerSet' = TRUE
            /\ hook' = IF env THEN <<"default">> ELSE <<"interceptor">> \o hook
            /\ lastSetup' = [result |-> "ok", at |-> "", env |-> env,
                             openOk |-> openOk]
            /\ UNCHANGED <<lastPanic, logSink, status>>
    /\ UNCHANGED <<build, env, origHook, meta>>
    /\ UNCHANGED <<ptrBytes, stack, info, out>>

\* The process environment changes (std::env::set_var / remove_var).
SetEnv(v) ==
    /\ status = "running"
    /\ v # env
    /\ env' = v
    /\ UNCHANGED <<build, hook, origHook, loggerSet, meta, setups, lastSetup,
                   lastPanic, logSink, status>>
    /\ UNCHANGED <<ptrBytes, stack, info, out>>

(***************************************************************************)
(* Specifications                                                          *)
(***************************************************************************)
\* The stack of the end-to-end scenario: a resolved and an unresolved frame.
ScenarioStack ==
    <<[ip |-> Ip(AddrMid, 8),
       symbols |-> <<Sym(<<"main">>, <<"app.src">>, <<10>>)>>],
      [ip |-> Ip(AddrLow, 8), symbols |-> <<>>]>>

\* print_msg is compiled into the hook of a release build only, so only
\* there does the terminal's outcome matter.
TerminalOutcomes == IF build = "release" THEN FailOps ELSE {"none"}

Init ==
    /\ build \in {"debug", "release"}
    /\ env \in BOOLEAN
    /\ hook \in {<<"default">>, <<"custom">>}
    /\ origHook = hook
    /\ loggerSet = FALSE
    /\ meta \in Metas
    /\ setups = 0
    /\ lastSetup = NoSetup
    /\ lastPanic = NoPanic
    /\ logSink = <<>>
    /\ status = "running"
    /\ ptrBytes = 8
    /\ stack = ScenarioStack
    /\ info = NoInfo
    /\ out = NoOut

Next ==
    \/ \E pinfo \in HookInfos, logOk \in BOOLEAN, failOp \in TerminalOutcomes :
         Panic(pinfo, logOk, failOp)
    \/ \E openOk \in BOOLEAN, logOk \in BOOLEAN, failOp \in TerminalOutcomes :
         setup_human_panic_logger(openOk, logOk, failOp)
    \/ \E v \in BOOLEAN : SetEnv(v)

Spec == Init /\ [][Next]_vars

InitFmt ==
    /\ build = "debug"
    /\ env = FALSE
    /\ hook = <<"default">>
    /\ origHook = hook
    /\ loggerSet = FALSE
    /\ meta \in {m \in Metas : m.authors = "" /\ m.homepage = ""}
    /\ setups = 0
    /\ lastSetup = NoSetup
    /\ lastPanic = NoPanic
    /\ logSink = <<>>
    /\ status = "running"
    /\ ptrBytes \in {4, 8}
    /\ stack = <<>>
    /\ info = NoInfo
    /\ out = NoOut

NextFmt ==
    \/ \E f \in FramePool(ptrBytes) : Call(f)
    \/ Return
    \/ \E pinfo \in Infos : FormatPanicCall(pinfo)

SpecFmt == InitFmt /\ [][NextFmt]_vars

(***************************************************************************)
(* Claims about the hook (checked under Spec)                              *)
(***************************************************************************)
\* Number of interceptor closures in a hook chain.
RECURSIVE Interceptors(_)
Interceptors(h) ==
    IF h = <<>> THEN 0
    ELSE (IF Head(h) = "interceptor" THEN 1 ELSE 0) + Interceptors(Tail(h))

\* C1: a failure that occurs after a completed setup call while RUST_BACKTRACE
\* is set appends no report to the log sink, prints no user message, and fires
\* only the handler that was registered before the setup call.
C1_OptOutOnlyPreviousHandler ==
    (lastPanic.via # "none" /\ lastSetup.result = "ok" /\ lastPanic.env)
        => /\ lastPanic.logs = <<>>
           /\ ~lastPanic.msg.called
           /\ lastPanic.events = origHook

\* C2: no run of the hook panics inside the hook, whatever the outcome of the
\* log write and of the terminal write, in debug and in release builds.
C2_HandlerNeverPanics == ~lastPanic.nested /\ status # "aborted"

\* C3: every run of the interceptor with RUST_BACKTRACE not set hands exactly
\* one report to the log sink, prefixed "Panic! :: "; a debug build runs the
\* previously registered handler before the log append and calls print_msg
\* not at all; a release build calls print_msg after the log append and does
\* not run the previous handler.
C3_InterceptorSteps ==
    (lastPanic.via = "interceptor" /\ ~lastPanic.env)
        => /\ Len(lastPanic.logs) = 1
           /\ SubSeq(lastPanic.logs[1].text, 1, 10) = "Panic! :: "
           /\ logSink # <<>> /\ logSink[Len(logSink)] = lastPanic.logs[1]
           /\ build = "debug"
                => /\ lastPanic.events = origHook \o <<"log">>
                   /\ ~lastPanic.msg.called
                   /\ ~lastPanic.msg.printed
           /\ build = "release"
                => /\ lastPanic.events = <<"log", "print_msg">>
                   /\ lastPanic.msg.called
                   /\ lastPanic.msg.printed => lastPanic.msg.result = "ok"

\* C3 happens: a release build's interceptor logged and then printed.
C3_Witness ==
    /\ lastPanic.via = "interceptor" /\ ~lastPanic.env
    /\ build = "release"
    /\ lastPanic.msg.printed
    /\ Len(logSink) = 1

\* C4: after a second (or later) setup call whose log file opened, the call
\* completed without failing, exactly one interceptor is registered and the
\* handler it saved is the one registered before the first setup call.
C4_DoubleInstallGuarded ==
    (setups >= 2 /\ lastSetup.openOk /\ ~lastSetup.env)
        => /\ lastSetup.result = "ok"
           /\ Interceptors(hook) = 1
           /\ Tail(hook) = origHook

IsFrame(p) == p.kind = "frame"

\* The positions of the frame lines among the writes, in order.
RECURSIVE FramePositions(_, _)
FramePositions(bt, i) ==
    IF i > Len(bt) THEN <<>>
    ELSE (IF IsFrame(bt[i]) THEN <<i>> ELSE <<>>) \o FramePositions(bt, i + 1)

\* The writes that follow the k-th frame line, up to the next frame line.
Segment(bt, k) ==
    LET pos == FramePositions(bt, 1)
        last == IF k < Len(pos) THEN pos[k + 1] - 1 ELSE Len(bt)
    IN  SubSeq(bt, pos[k] + 1, last)

EndsWith(s, t) == Len(s) >= Len(t) /\ SubSeq(s, Len(s) - Len(t) + 1, Len(s)) = t

StartsWith(s, t) == Len(s) >= Len(t) /\ SubSeq(s, 1, Len(t)) = t

Resolved(symbol) == symbol.file # <<>> /\ symbol.line # <<>>

\* C6: the report has exactly one frame line per captured frame, in capture
\* order (the line shows that frame's address), numbered 0, 1, 2, ...
C6_OneLinePerFrame ==
    LET lines == SelectSeq(out.bt, IsFrame)
    IN  /\ Len(lines) = Len(out.frames)
        /\ \A i \in 1..Len(lines) :
             /\ lines[i].idx = i - 1
             /\ StartsWith(lines[i].text, "\n" \o PadLeft(ToDec(i - 1), 4) \o ": ")
             /\ EndsWith(lines[i].text, "0x" \o LowerHex(out.frames[i].ip))

\* C6 happens: two frames were captured, one of them without symbols.
C6_Witness ==
    /\ Len(out.frames) = 2
    /\ out.frames[1].symbols = <<>>
    /\ out.frames[2].symbols # <<>>

\* C7: a frame without symbols renders as its frame line followed by
\* " - <unresolved>" and nothing else; a frame with symbols never renders
\* that marker, renders one name entry per symbol ("<unknown>" for a symbol
\* without a name), and an "at <file>:<line>" line for exactly the symbols
\* whose file and line are both resolved.
C7_FrameBody ==
    \A k \in 1..Len(out.frames) :
      LET f == out.frames[k]
          seg == Segment(out.bt, k)
          names == SelectSeq(seg, LAMBDA p : p.kind = "name")
          ats == SelectSeq(seg, LAMBDA p : p.kind = "at")
          resolved == SelectSeq(f.symbols, Resolved)
      IN  IF f.symbols = <<>>
            THEN Flatten(seg) = " - <unresolved>"
            ELSE /\ \A i \in 1..Len(seg) : ~EndsWith(seg[i].text, "<unresolved>")
                 /\ Len(names) = Len(f.symbols)
                 /\ \A j \in 1..Len(names) :
                      names[j].text =
                        " - " \o (IF f.symbols[j].name # <<>>
                                    THEN f.symbols[j].name[1] ELSE "<unknown>")
                 /\ Len(ats) = Len(resolved)
                 /\ \A j \in 1..Len(ats) :
                      EndsWith(ats[j].text,
                               " at " \o resolved[j].file[1] \o ":"
                               \o ToDec(resolved[j].line[1]))

\* C7 happens: a frame without symbols and a frame with several symbols, one
\* of them nameless, one without a line, one without a file.
C7_Witness ==
    /\ Len(out.frames) = 2
    /\ out.frames[1].symbols = <<>>
    /\ Len(out.frames[2].symbols) = 3

C9_SameRecordSameReport ==
    [][(info \in Infos /\ info' = info /\ stack' = stack)
         => out'.text = out.text]_vars

\* C10: every frame's address is rendered in a field of
\* (pointer size in bytes x 2) + 2 characters.
C10_AddressWidth ==
    \A i \in 1..Len(out.bt) :
      IsFrame(out.bt[i]) => Len(out.bt[i].addr) = ptrBytes * 2 + 2

====
